---------------------------- MODULE Spec2Model ----------------------------
(***************************************************************************)
(* The reduction layers of python/statistics.py (Mean, Prod, Sum, Min,     *)
(* Max): five caffe.Layer subclasses with the hooks setup, reshape,        *)
(* forward and backward.                                                   *)
(*                                                                         *)
(* A blob is a shape (a sequence of dimension sizes) and two flat buffers  *)
(* (data and diff) in row-major order, as the host runtime stores it and   *)
(* as numpy views it.  Floating-point values are abstracted to exact       *)
(* rationals [n, d] in lowest terms.                                       *)
(***************************************************************************)
EXTENDS Integers, Sequences, FiniteSets

\* Bounds of the model.
MaxRank == 2
MaxDim == 3
MaxCount == 6

VARIABLES
    op,             \* the layer class: which of the five classes the instance is
    nBottom,        \* len(bottom) the host binds
    nTop,           \* len(top) the host binds
    param_str,      \* the dictionary self.param_str denotes
    phase,          \* host protocol position of the instance
    axis,           \* self.axis
    keepdims,       \* self.keepdims
    bottomShape,    \* bottom[0].data.shape
    bottomData,     \* bottom[0].data
    bottomDiff,     \* bottom[0].diff
    topShape,       \* top[0].data.shape
    topData,        \* top[0].data
    topDiff,        \* top[0].diff
    propagate_down, \* the propagate_down list of the last call (<<>>: the hook takes none)
    lastCall,       \* the hook called last
    reentered,      \* whether that call was a reshape of an already shaped top
    err             \* the exception the last call raised, "none" if it returned

vars == <<op, nBottom, nTop, param_str, phase, axis, keepdims, bottomShape,
          bottomData, bottomDiff, topShape, topData, topDiff, propagate_down,
          lastCall, reentered, err>>

Ops == {"Mean", "Prod", "Sum", "Min", "Max"}

-----------------------------------------------------------------------------
\* Arithmetic on tensor elements.

RECURSIVE Gcd(_, _)
Gcd(a, b) == IF b = 0 THEN a ELSE Gcd(b, a % b)

Abs(x) == IF x < 0 THEN -x ELSE x

\* The rational n/d (d > 0) in lowest terms.
Rat(n, d) ==
    LET g == Gcd(Abs(n), d)
    IN  [n |-> n \div g, d |-> d \div g]

RInt(k) == [n |-> k, d |-> 1]
RAdd(a, b) == Rat(a.n * b.d + b.n * a.d, a.d * b.d)
RMul(a, b) == Rat(a.n * b.n, a.d * b.d)
RDivInt(a, k) == Rat(a.n, a.d * k)
RLeq(a, b) == a.n * b.d <= b.n * a.d
RMin(a, b) == IF RLeq(a, b) THEN a ELSE b
RMax(a, b) == IF RLeq(a, b) THEN b ELSE a

-----------------------------------------------------------------------------
\* Shapes, coordinates and the row-major layout of a blob.

RECURSIVE Count(_)
Count(shape) ==
    IF shape = <<>> THEN 1 ELSE Head(shape) * Count(Tail(shape))

\* The number of elements one step along dimension i (1-based) skips.
Stride(shape, i) == Count(SubSeq(shape, i + 1, Len(shape)))

\* The coordinate (0-based in each dimension) of flat offset k (0-based).
Unflat(shape, k) ==
    [i \in 1..Len(shape) |-> (k \div Stride(shape, i)) % shape[i]]

RECURSIVE FlatFrom(_, _, _)
FlatFrom(shape, c, i) ==
    IF i > Len(shape) THEN 0
    ELSE c[i] * Stride(shape, i) + FlatFrom(shape, c, i + 1)

\* The flat offset (0-based) of coordinate c.
Flat(shape, c) == FlatFrom(shape, c, 1)

Zeros(shape) == [k \in 1..Count(shape) |-> RInt(0)]

\* A blob the host has not shaped yet holds no elements.
NoShape == <<0>>

-----------------------------------------------------------------------------
\* The axis specification and the parameter dictionary.
\*
\* An axis value is [kind, v]: kind "int" with v = <<i>>, kind "tuple" with
\* v the indices in the order written, kind "set" with v the members (a set
\* has no order of its own; v lists them ascending).  "unset" is an attribute
\* the instance does not have yet.

\* The indices an axis specification names: the dimensions of an input of the
\* largest rank (an input of lower rank makes the larger ones out of range).
AxisIdx == 0..(MaxRank - 1)

\* The sequences over S of length n without a repeated member.
DistinctSeqs(S, n) ==
    {s \in [1..n -> S] : \A i, j \in 1..n : s[i] = s[j] => i = j}

Ascending(s) == \A i, j \in 1..Len(s) : i < j => s[i] < s[j]

AxisLens == 1..MaxRank

AxisSpecs ==
    {[kind |-> "int", v |-> <<i>>] : i \in AxisIdx}
    \cup {[kind |-> "tuple", v |-> s] :
             s \in UNION {DistinctSeqs(AxisIdx, n) : n \in AxisLens}}
    \cup {[kind |-> "set", v |-> s] :
             s \in {t \in UNION {DistinctSeqs(AxisIdx, n) : n \in AxisLens} :
                       Ascending(t)}}

UnsetAxis == [kind |-> "unset", v |-> <<>>]
Missing == [kind |-> "missing", v |-> <<>>]

\* keepdims is "True" or "False"; "unset" before setup stores it.
KeepValues == {"True", "False"}

\* The dictionaries eval(self.param_str) can give: both keys, or a key missing.
Params ==
    [axis : AxisSpecs \cup {Missing}, keepdims : KeepValues \cup {"missing"}]

-----------------------------------------------------------------------------
\* Python list operations used by reshape.

\* sorted(s): insertion sort, ascending.
RECURSIVE Sorted(_)
Sorted(s) ==
    IF s = <<>> THEN <<>>
    ELSE LET x == Head(s)
             t == Sorted(Tail(s))
             k == Cardinality({j \in 1..Len(t) : t[j] < x})
         IN  SubSeq(t, 1, k) \o <<x>> \o SubSeq(t, k + 1, Len(t))

\* reversed(s)
Reversed(s) == [i \in 1..Len(s) |-> s[Len(s) + 1 - i]]

\* del shape[i], i a 0-based index in range
DelItem(shape, i) == SubSeq(shape, 1, i) \o SubSeq(shape, i + 2, Len(shape))

\* shape[i] = 1, i a 0-based index in range
SetOne(shape, i) == [shape EXCEPT ![i + 1] = 1]

\* One pass of the body of reshape's loop over `order`, left to right; an
\* index outside the list as it then is raises IndexError.
RECURSIVE ApplyAxes(_, _, _)
ApplyAxes(shape, order, keep) ==
    IF order = <<>> THEN [err |-> "none", shape |-> shape]
    ELSE LET i == Head(order)
         IN  IF i >= Len(shape) THEN [err |-> "IndexError", shape |-> shape]
             ELSE ApplyAxes(IF keep = "True" THEN SetOne(shape, i)
                                             ELSE DelItem(shape, i),
                            Tail(order), keep)

\* The visiting order without reversed(): ascending.
AxisOrderAscending(v) == Sorted(v)

\* The order in which reshape visits the indices of a collection axis.
AxisOrder(v) == Reversed(Sorted(v))

\* A reshape that computes the shape only for a top not shaped before.
ReshapeShapeOnce(shape, ax, keep) ==
    IF topShape # NoShape THEN [err |-> "none", shape |-> topShape]
    ELSE IF ax.kind = "int" THEN ApplyAxes(shape, ax.v, keep)
    ELSE ApplyAxes(shape, AxisOrder(ax.v), keep)

\* The shape reshape computes from the input shape, or the exception raised
\* on the way.
ReshapeShape(shape, ax, keep) ==
    IF ax.kind = "int" THEN ApplyAxes(shape, ax.v, keep)
    ELSE ApplyAxes(shape, AxisOrder(ax.v), keep)

-----------------------------------------------------------------------------
\* numpy: the reductions np.mean, np.prod, np.sum, np.min, np.max and the
\* broadcasting assignment dst[...] = src.

\* The binary operation a reduction folds with; np.mean folds with addition
\* and divides the total afterwards.
Combine(fn, a, b) ==
    CASE fn = "Sum" -> RAdd(a, b)
      [] fn = "Mean" -> RAdd(a, b)
      [] fn = "Prod" -> RMul(a, b)
      [] fn = "Min" -> RMin(a, b)
      [] fn = "Max" -> RMax(a, b)

\* The fold of fn over positions 0..j of dimension ax (0-based) at the
\* coordinate c (whose entry for ax is ignored).
RECURSIVE FoldAxis(_, _, _, _, _, _)
FoldAxis(fn, shape, data, c, ax, j) ==
    LET e == data[Flat(shape, [c EXCEPT ![ax + 1] = j]) + 1]
    IN  IF j = 0 THEN e
        ELSE Combine(fn, FoldAxis(fn, shape, data, c, ax, j - 1), e)

\* The reduction of one dimension, which stays in the shape with size 1.
ReduceAlong(fn, shape, data, ax) ==
    LET outShape == SetOne(shape, ax)
    IN  [shape |-> outShape,
         data |-> [k \in 1..Count(outShape) |->
                      FoldAxis(fn, shape, data, Unflat(outShape, k - 1), ax,
                               shape[ax + 1] - 1)]]

\* The reduction of the dimensions idx, one after the other.
RECURSIVE ReduceAxes(_, _, _, _)
ReduceAxes(fn, shape, data, idx) ==
    IF idx = <<>> THEN [shape |-> shape, data |-> data]
    ELSE LET r == ReduceAlong(fn, shape, data, Head(idx))
         IN  ReduceAxes(fn, r.shape, r.data, Tail(idx))

\* The number of elements reduced into one output element.
RECURSIVE ReduceItems(_, _)
ReduceItems(shape, idx) ==
    IF idx = <<>> THEN 1
    ELSE shape[Head(idx) + 1] * ReduceItems(shape, Tail(idx))

\* The shape with the dimensions idx (each of size 1) dropped.
Squeeze(shape, idx) ==
    LET keepAt == {i \in 1..Len(shape) : \A j \in 1..Len(idx) : idx[j] # i - 1}
        Nth(k) == CHOOSE i \in keepAt :
                      Cardinality({m \in keepAt : m < i}) = k - 1
    IN  [k \in 1..Cardinality(keepAt) |-> shape[Nth(k)]]

\* np.<fn>(data, axis=ax, keepdims=keep) on a non-empty array.  numpy takes
\* axis as an int or a tuple of ints and raises TypeError for any other
\* container, AxisError for an index outside the array's dimensions and
\* ValueError for a repeated index.
NpReduce(fn, shape, data, ax, keep) ==
    IF ax.kind \notin {"int", "tuple"}
    THEN [err |-> "TypeError", shape |-> <<>>, data |-> <<>>]
    ELSE IF \E j \in 1..Len(ax.v) : ax.v[j] >= Len(shape)
    THEN [err |-> "AxisError", shape |-> <<>>, data |-> <<>>]
    ELSE IF \E i, j \in 1..Len(ax.v) : i # j /\ ax.v[i] = ax.v[j]
    THEN [err |-> "ValueError", shape |-> <<>>, data |-> <<>>]
    ELSE LET r == ReduceAxes(fn, shape, data, ax.v)
             n == ReduceItems(shape, ax.v)
             d == IF fn = "Mean"
                  THEN [k \in 1..Len(r.data) |-> RDivInt(r.data[k], n)]
                  ELSE r.data
         IN  [err |-> "none",
              shape |-> IF keep = "True" THEN r.shape ELSE Squeeze(r.shape, ax.v),
              data |-> d]

\* Whether an array of shape src can be assigned to one of shape dst: the
\* shapes are aligned at their last dimensions, each dimension of src is the
\* matching dimension of dst or 1, and dimensions src has beyond dst are 1.
Broadcastable(dst, src) ==
    LET off == Len(dst) - Len(src)
    IN  \A j \in 1..Len(src) :
            IF j + off >= 1 THEN src[j] = dst[j + off] \/ src[j] = 1
            ELSE src[j] = 1

\* The contents of dst after dst[...] = src, src broadcastable to dst.
BroadcastData(dst, src, data) ==
    LET off == Len(dst) - Len(src)
    IN  [k \in 1..Count(dst) |->
            LET c == Unflat(dst, k - 1)
                sc == [j \in 1..Len(src) |->
                          IF j + off >= 1 /\ src[j] # 1 THEN c[j + off] ELSE 0]
            IN  data[Flat(src, sc) + 1]]

\* dst[...] = src: the new contents, or ValueError with nothing written.
BroadcastAssign(dst, src, data) ==
    IF Broadcastable(dst, src)
    THEN [err |-> "none", data |-> BroadcastData(dst, src, data)]
    ELSE [err |-> "ValueError", data |-> <<>>]

\* a[:] of an array of shape `shape`: the array itself, or IndexError for an
\* array without dimensions.
SliceAll(shape) == IF shape = <<>> THEN "IndexError" ELSE "none"

-----------------------------------------------------------------------------
\* What the host hands to the hooks.  The host calls setup once, then reshape,
\* then forward and backward in pairs, with a reshape whenever the input
\* shape changes; an exception a hook raises ends the step, and the host
\* calls no further hook of the instance.

\* The numbers of blobs the host can bind on either side.
BindCounts == 0..2

\* The input shapes: up to MaxRank dimensions.  A non-empty input has
\* dimensions of size 1..MaxDim and at most MaxCount elements; an empty input
\* has a dimension of size 0 (the others of size 1).
NonEmptyShapes ==
    {s \in UNION {[1..n -> 1..MaxDim] : n \in 1..MaxRank} : Count(s) <= MaxCount}

EmptyShapes ==
    {s \in UNION {[1..n -> 0..1] : n \in 1..MaxRank} : Count(s) = 0}

InShapes == NonEmptyShapes \cup EmptyShapes

\* The contents the host fills a buffer of n elements with.
DataPatterns == {"iota", "mixed"}
GradPatterns == {"ones", "iota"}

Fill(pattern, n) ==
    [k \in 1..n |->
        RInt(CASE pattern = "iota" -> k
               [] pattern = "mixed" -> ((3 * k) % 5) - 1
               [] pattern = "ones" -> 1)]

-----------------------------------------------------------------------------
\* The instance after construction: the class, the bindings and param_str are
\* fixed by the net definition; no attribute is stored yet.
Init ==
    /\ op \in Ops
    /\ nBottom \in BindCounts
    /\ nTop \in BindCounts
    /\ param_str \in Params
    /\ phase = "unconfigured"
    /\ axis = UnsetAxis
    /\ keepdims = "unset"
    /\ bottomShape = NoShape
    /\ bottomData = <<>>
    /\ bottomDiff = <<>>
    /\ topShape = NoShape
    /\ topData = <<>>
    /\ topDiff = <<>>
    /\ propagate_down = <<>>
    /\ lastCall = "none"
    /\ reentered = FALSE
    /\ err = "none"

\* A setup that evaluates param_str and stores the attributes before it
\* counts the blobs.
SetupParsesFirst ==
    /\ phase = "unconfigured"
    /\ lastCall = "none"
    /\ lastCall' = "setup"
    /\ reentered' = FALSE
    /\ IF param_str.axis = Missing
       THEN /\ err' = "KeyError"
            /\ UNCHANGED <<axis, keepdims, phase>>
       ELSE IF param_str.keepdims = "missing"
       THEN /\ axis' = param_str.axis
            /\ err' = "KeyError"
            /\ UNCHANGED <<keepdims, phase>>
       ELSE /\ axis' = param_str.axis
            /\ keepdims' = param_str.keepdims
            /\ IF nBottom # 1
               THEN err' = "OnlyOneInput" /\ UNCHANGED phase
               ELSE IF nTop # 1
               THEN err' = "OnlyOneOutput" /\ UNCHANGED phase
               ELSE err' = "none" /\ phase' = "configured"
    /\ propagate_down' = <<>>
    /\ UNCHANGED <<op, nBottom, nTop, param_str, bottomShape, bottomData,
                   bottomDiff, topShape, topData, topDiff>>

\* setup(self, bottom, top)
Setup ==
    /\ phase = "unconfigured"
    /\ lastCall = "none"
    /\ lastCall' = "setup"
    /\ reentered' = FALSE
    /\ IF nBottom # 1
       THEN /\ err' = "OnlyOneInput"
            /\ UNCHANGED <<axis, keepdims, phase>>
       ELSE IF nTop # 1
       THEN /\ err' = "OnlyOneOutput"
            /\ UNCHANGED <<axis, keepdims, phase>>
       ELSE IF param_str.axis = Missing
       THEN /\ err' = "KeyError"
            /\ UNCHANGED <<axis, keepdims, phase>>
       ELSE IF param_str.keepdims = "missing"
       THEN /\ axis' = param_str.axis
            /\ err' = "KeyError"
            /\ UNCHANGED <<keepdims, phase>>
       ELSE /\ axis' = param_str.axis
            /\ keepdims' = param_str.keepdims
            /\ phase' = "configured"
            /\ err' = "none"
    /\ propagate_down' = <<>>
    /\ UNCHANGED <<op, nBottom, nTop, param_str, bottomShape, bottomData,
                   bottomDiff, topShape, topData, topDiff>>

\* An emptiness check that looks at the first dimension only.
FirstDimEmpty(shape) == shape[1] = 0

\* bottom[0].count == 0
IsEmpty(shape) == Count(shape) = 0

\* A hook that stores the sorted indices back into self.axis.
SortsAxis ==
    /\ axis' = [kind |-> IF axis.kind = "int" THEN "int" ELSE "tuple",
                v |-> AxisOrder(axis.v)]
    /\ keepdims' = keepdims

\* reshape, forward and backward read self.axis and self.keepdims and assign
\* no attribute of the instance.
KeepsAttributes == UNCHANGED <<axis, keepdims>>

\* reshape(self, bottom, top), the host having given bottom[0] the shape s.
ReshapeWith(s) ==
    /\ phase \in {"configured", "shaped", "ready"}
    /\ err = "none"
    /\ bottomShape' = s
    /\ bottomData' = Zeros(s)
    /\ bottomDiff' = Zeros(s)
    /\ lastCall' = "reshape"
    /\ reentered' = (phase \in {"shaped", "ready"})
    /\ IF IsEmpty(s)
       THEN /\ err' = "EmptyInput"
            /\ UNCHANGED <<phase, topShape, topData, topDiff>>
       ELSE \E r \in {ReshapeShape(s, axis, keepdims)} :
                IF r.err # "none"
                THEN /\ err' = r.err
                     /\ UNCHANGED <<phase, topShape, topData, topDiff>>
                ELSE /\ topShape' = r.shape
                     /\ topData' = Zeros(r.shape)
                     /\ topDiff' = Zeros(r.shape)
                     /\ phase' = "shaped"
                     /\ err' = "none"
    /\ propagate_down' = <<>>
    /\ KeepsAttributes
    /\ UNCHANGED <<op, nBottom, nTop, param_str>>

Reshape == \E s \in InShapes : ReshapeWith(s)

\* forward(self, bottom, top), the host having filled bottom[0].data.
ForwardWith(d) ==
    /\ phase \in {"shaped", "ready"}
    /\ err = "none"
    /\ lastCall' = "forward"
    /\ reentered' = FALSE
    /\ bottomData' = Fill(d, Count(bottomShape))
    /\ \E r \in {NpReduce(op, bottomShape, Fill(d, Count(bottomShape)), axis,
                          keepdims)} :
           IF r.err # "none"
           THEN /\ err' = r.err
                /\ UNCHANGED <<topData, phase>>
           ELSE \E a \in {BroadcastAssign(topShape, r.shape, r.data)} :
                   IF a.err # "none"
                   THEN /\ err' = a.err
                        /\ UNCHANGED <<topData, phase>>
                   ELSE /\ topData' = a.data
                        /\ phase' = "ready"
                        /\ err' = "none"
    /\ propagate_down' = <<>>
    /\ KeepsAttributes
    /\ UNCHANGED <<op, nBottom, nTop, param_str, bottomShape, bottomDiff,
                   topShape, topDiff>>

Forward == \E d \in DataPatterns : ForwardWith(d)

\* A loop that never skips a slot.
SkipsNever(pd) == FALSE

\* if not propagate_down[i]: continue
Skips(pd) == ~pd

\* backward(self, top, propagate_down, bottom), the host having filled
\* top[0].diff; propagate_down holds one flag, for the one bottom.
BackwardWith(g, pd) ==
    /\ phase = "ready"
    /\ err = "none"
    /\ lastCall' = "backward"
    /\ reentered' = FALSE
    /\ propagate_down' = <<pd>>
    /\ topDiff' = Fill(g, Count(topShape))
    /\ IF Skips(pd)
       THEN /\ err' = "none"
            /\ UNCHANGED bottomDiff
       ELSE IF SliceAll(topShape) # "none"
       THEN /\ err' = SliceAll(topShape)
            /\ UNCHANGED bottomDiff
       ELSE \E a \in {BroadcastAssign(bottomShape, topShape,
                                      Fill(g, Count(topShape)))} :
               IF a.err # "none"
               THEN /\ err' = a.err
                    /\ UNCHANGED bottomDiff
               ELSE /\ bottomDiff' = a.data
                    /\ err' = "none"
    /\ KeepsAttributes
    /\ UNCHANGED <<op, nBottom, nTop, param_str, phase, bottomShape,
                   bottomData, topShape, topData>>

Backward == \E g \in GradPatterns, pd \in BOOLEAN : BackwardWith(g, pd)

Next == Setup \/ Reshape \/ Forward \/ Backward

Spec == Init /\ [][Next]_vars

-----------------------------------------------------------------------------
\* The shape computation alone, on inputs of one more dimension and larger
\* sizes: the instance after a successful setup, and one reshape call.

WideRank == MaxRank + 1
WideDim == MaxDim + 1
WideCount == 4 * MaxCount

WideAxisSpecs ==
    {[kind |-> "int", v |-> <<i>>] : i \in 0..(WideRank - 1)}
    \cup {[kind |-> "tuple", v |-> s] :
             s \in UNION {DistinctSeqs(0..(WideRank - 1), n) : n \in 1..WideRank}}
    \cup {[kind |-> "set", v |-> s] :
             s \in {t \in UNION {DistinctSeqs(0..(WideRank - 1), n) :
                                    n \in 1..WideRank} : Ascending(t)}}

WideShapes ==
    {s \in UNION {[1..n -> 1..WideDim] : n \in 1..WideRank} :
        Count(s) <= WideCount}
    \cup {s \in UNION {[1..n -> 0..1] : n \in 1..WideRank} : Count(s) = 0}

InitShape ==
    /\ op \in Ops
    /\ nBottom = 1
    /\ nTop = 1
    /\ param_str \in [axis : WideAxisSpecs, keepdims : KeepValues]
    /\ phase = "configured"
    /\ axis = param_str.axis
    /\ keepdims = param_str.keepdims
    /\ bottomShape = NoShape
    /\ bottomData = <<>>
    /\ bottomDiff = <<>>
    /\ topShape = NoShape
    /\ topData = <<>>
    /\ topDiff = <<>>
    /\ propagate_down = <<>>
    /\ lastCall = "setup"
    /\ reentered = FALSE
    /\ err = "none"

ReshapeOnce ==
    /\ lastCall = "setup"
    /\ \E s \in WideShapes : ReshapeWith(s)

SpecShape == InitShape /\ [][ReshapeOnce]_vars

-----------------------------------------------------------------------------
\* The output shape and the output position as the specification states them.

\* The set of dimensions an axis specification names.
AxisSet(ax) == {ax.v[j] : j \in 1..Len(ax.v)}

\* Every index names a dimension of the shape.
ValidAxis(ax, shape) == \A i \in AxisSet(ax) : i < Len(shape)

\* The entries of seq whose (0-based) index is not in A, from entry i on, in
\* their original order.
RECURSIVE Remaining(_, _, _)
Remaining(seq, A, i) ==
    IF i > Len(seq) THEN <<>>
    ELSE (IF (i - 1) \in A THEN <<>> ELSE <<seq[i]>>) \o Remaining(seq, A, i + 1)

ExpectedShape(shape, A, keep) ==
    IF keep = "True"
    THEN [i \in 1..Len(shape) |-> IF (i - 1) \in A THEN 1 ELSE shape[i]]
    ELSE Remaining(shape, A, 1)

\* The orders in which the indices of ax can be supplied.
Reorderings(ax) ==
    {[kind |-> "tuple", v |-> q] : q \in DistinctSeqs(AxisSet(ax), Len(ax.v))}

\* C1: for a non-empty input shape S and an axis specification of distinct
\* valid non-negative indices (an integer or a collection), reshape succeeds
\* and gives the output the dimensions of S not named by the axis, in their
\* order (rank(S) - |A|), when keepdims is false, and S with every named
\* dimension replaced by 1 (rank unchanged) when keepdims is true; supplying
\* the indices in another order gives the same shape.
ReshapeGivesReducedShape ==
    (/\ lastCall = "reshape"
     /\ \A i \in 1..Len(bottomShape) : bottomShape[i] > 0
     /\ ValidAxis(axis, bottomShape))
    => /\ err = "none"
       /\ topShape = ExpectedShape(bottomShape, AxisSet(axis), keepdims)
       /\ Len(topShape) = IF keepdims = "True" THEN Len(bottomShape)
                          ELSE Len(bottomShape) - Cardinality(AxisSet(axis))
       /\ \A q \in Reorderings(axis) :
              ReshapeShape(bottomShape, q, keepdims) =
                  [err |-> "none", shape |-> topShape]

\* The example of C1: shape [2,3,4], axis {0,2}, keepdims false gives [3].
ReshapeExampleReached ==
    /\ lastCall = "reshape"
    /\ err = "none"
    /\ bottomShape = <<2, 3, 4>>
    /\ axis = [kind |-> "set", v |-> <<0, 2>>]
    /\ keepdims = "False"
    /\ topShape = <<3>>

\* C9: whatever reshape, forward and backward calls came before, once the
\* last reshape call has returned the output shape is the one computed from
\* the current input shape and the configured axis and keepdims alone.
ReshapeReentrant ==
    (/\ phase \in {"shaped", "ready"}
     /\ ~(lastCall = "reshape" /\ err # "none"))
    => topShape = ExpectedShape(bottomShape, AxisSet(axis), keepdims)

\* A reshape that found the top shaped by an earlier call and gave it a
\* different rank-1 shape.
ReshapeReenteredReached ==
    /\ lastCall = "reshape"
    /\ reentered
    /\ err = "none"
    /\ bottomShape = <<2, 3>>
    /\ topShape = <<2>>

-----------------------------------------------------------------------------
\* The reductions and the gradients as the specification states them.

\* The output coordinate that shares the non-reduced coordinates of c.
OutCoord(c, A, keep) ==
    IF keep = "True"
    THEN [i \in 1..Len(c) |-> IF (i - 1) \in A THEN 0 ELSE c[i]]
    ELSE Remaining(c, A, 1)

\* The output position (1-based, flat) of input position j.
OutIndex(j) ==
    Flat(topShape, OutCoord(Unflat(bottomShape, j - 1), AxisSet(axis), keepdims)) + 1

\* The input positions reduced into output position k.
Group(k) == {j \in 1..Count(bottomShape) : OutIndex(j) = k}

RECURSIVE SetFold(_, _, _)
SetFold(fn, data, G) ==
    LET j == CHOOSE x \in G : \A y \in G : x <= y
        rest == SetFold(fn, data, G \ {j})
    IN  IF G = {j} THEN data[j]
        ELSE CASE fn = "Sum" -> RAdd(data[j], rest)
               [] fn = "Prod" -> RMul(data[j], rest)
               [] fn = "Min" -> IF RLeq(data[j], rest) THEN data[j] ELSE rest
               [] fn = "Max" -> IF RLeq(rest, data[j]) THEN data[j] ELSE rest

ExpectedFold(fn, data, G) ==
    IF fn = "Mean" THEN RDivInt(SetFold("Sum", data, G), Cardinality(G))
    ELSE SetFold(fn, data, G)

TopHoldsFold ==
    /\ err = "none"
    /\ Len(topData) = Count(topShape)
    /\ \A k \in 1..Len(topData) :
           topData[k] = ExpectedFold(op, bottomData, Group(k))

\* C2: after configure and reshape, forward writes at every output
\* coordinate the operator's fold over the input elements that share its
\* non-reduced coordinates.
ForwardWritesFold == lastCall = "forward" => TopHoldsFold

\* C2 for an axis given as an integer or a tuple, the forms numpy accepts.
ForwardWritesFoldIntOrTuple ==
    (lastCall = "forward" /\ axis.kind \in {"int", "tuple"}) => TopHoldsFold

\* C3: the Sum layer's backward, propagation requested, succeeds and writes
\* at each input position the output gradient of the output position that
\* shares its non-reduced coordinates (stated for an output that keeps at
\* least one dimension).
SumBackwardBroadcasts ==
    (/\ op = "Sum"
     /\ lastCall = "backward"
     /\ propagate_down = <<TRUE>>
     /\ topShape # <<>>)
    => /\ err = "none"
       /\ Len(bottomDiff) = Count(bottomShape)
       /\ \A j \in 1..Len(bottomDiff) : bottomDiff[j] = topDiff[OutIndex(j)]

\* C3 where the reduced dimensions are kept: the broadcast the claim states.
BackwardBroadcastsKeepdims ==
    (lastCall = "backward" /\ propagate_down = <<TRUE>> /\ keepdims = "True")
    => /\ err = "none"
       /\ Len(bottomDiff) = Count(bottomShape)
       /\ \A j \in 1..Len(bottomDiff) : bottomDiff[j] = topDiff[OutIndex(j)]

\* C4: the Mean layer's backward, propagation requested, writes at each input
\* position the output gradient of its output position divided by the number
\* of elements reduced into that position.
MeanBackwardDivides ==
    (/\ op = "Mean"
     /\ lastCall = "backward"
     /\ propagate_down = <<TRUE>>
     /\ err = "none")
    => /\ Len(bottomDiff) = Count(bottomShape)
       /\ \A j \in 1..Len(bottomDiff) :
              bottomDiff[j] = RDivInt(topDiff[OutIndex(j)],
                                      Cardinality(Group(OutIndex(j))))

\* C5: setup raises whenever the host binds another number than one input or
\* one output, whatever the class and the payload, and then stores neither
\* axis nor keepdims: the layer stays unconfigured.
SetupRejectsArity ==
    (lastCall # "none" /\ (nBottom # 1 \/ nTop # 1))
    => /\ lastCall = "setup"
       /\ err \in {"OnlyOneInput", "OnlyOneOutput"}
       /\ axis = UnsetAxis
       /\ keepdims = "unset"
       /\ phase = "unconfigured"

\* A setup refused for its two inputs before it looked at a payload that
\* lacks keepdims: no KeyError, and axis not stored.
SetupRejectedReached ==
    /\ lastCall = "setup"
    /\ nBottom = 2
    /\ nTop = 1
    /\ param_str.axis \in AxisSpecs
    /\ param_str.keepdims = "missing"
    /\ err = "OnlyOneInput"
    /\ axis = UnsetAxis

\* C6: a reshape whose input has no elements raises the empty-input error
\* and leaves the output shape as it was; a reshape whose input has elements
\* never raises that error.
ReshapeRejectsEmpty ==
    [][lastCall' = "reshape"
       => IF \E i \in 1..Len(bottomShape') : bottomShape'[i] = 0
          THEN err' = "EmptyInput" /\ topShape' = topShape
          ELSE err' # "EmptyInput"]_vars

\* An empty input (its second dimension is 0) refused by a reshape that found
\* the top already shaped.
EmptyRejectedReached ==
    /\ lastCall = "reshape"
    /\ reentered
    /\ bottomShape = <<1, 0>>
    /\ err = "EmptyInput"
    /\ topShape = <<2>>

\* C7: a hook that raises has changed nothing it writes: the stored axis and
\* keepdims, the output's shape and data and (in backward) the input
\* gradient are what they were before the call.
RaisingHookChangesNothing ==
    [][err' # "none"
       => /\ axis' = axis
          /\ keepdims' = keepdims
          /\ topShape' = topShape
          /\ topData' = topData
          /\ (lastCall' = "backward" => bottomDiff' = bottomDiff)]_vars

\* C7 for the hooks other than setup.
RaisingHookAfterSetupChangesNothing ==
    [][(err' # "none" /\ lastCall' # "setup")
       => /\ axis' = axis
          /\ keepdims' = keepdims
          /\ topShape' = topShape
          /\ topData' = topData
          /\ (lastCall' = "backward" => bottomDiff' = bottomDiff)]_vars

\* C8: a backward whose propagate flag is false returns without a write: the
\* input gradient, the output's data and shape and the stored axis and
\* keepdims are unchanged, and the output gradient is the one the host
\* passed in.
BackwardSkipsUnrequested ==
    [][(lastCall' = "backward" /\ propagate_down' = <<FALSE>>)
       => /\ err' = "none"
          /\ bottomDiff' = bottomDiff
          /\ topData' = topData
          /\ topShape' = topShape
          /\ topDiff' \in {Fill(g, Count(topShape)) : g \in GradPatterns}
          /\ axis' = axis
          /\ keepdims' = keepdims]_vars

\* A backward with the flag false that left in place the gradient an earlier
\* backward had written.
BackwardSkippedReached ==
    /\ lastCall = "backward"
    /\ propagate_down = <<FALSE>>
    /\ err = "none"
    /\ bottomDiff # Zeros(bottomShape)

\* C10: once setup has stored them, axis and keepdims stay what the payload
\* gave through every later reshape, forward and backward call, returning or
\* raising.
AttributesImmutable ==
    phase # "unconfigured"
    => axis = param_str.axis /\ keepdims = param_str.keepdims

\* A backward that raised after a reshape and a forward that returned.
RaisedAfterForwardReached ==
    /\ lastCall = "backward"
    /\ err = "ValueError"
    /\ bottomShape = <<2, 3>>
    /\ axis = [kind |-> "int", v |-> <<1>>]
    /\ keepdims = "False"

=============================================================================
